---- MODULE Spec2Model ----
(***************************************************************************)
(* A model of paddlescience/solver/utils.py: the squared L2 norm helper,   *)
(* the boundary-condition loss, the Navier-Stokes equation loss and the    *)
(* data-parallel partition of inputs and labels.                           *)
(*                                                                         *)
(* Arithmetic is exact.  A number is a rational [n, d] in lowest terms     *)
(* with d > 0; the result of a division by zero is Undef.  A value that    *)
(* has been through a square root is a surd [q, r], standing for           *)
(* q * sqrt(r) with q and r rational and r >= 0, so that norm-then-square  *)
(* and sqrt(weight)-then-square are computed, not assumed.  float32        *)
(* rounding and overflow are outside the model.                            *)
(***************************************************************************)
EXTENDS Integers, Sequences, FiniteSets, TLC

VARIABLES
    pc,            \* position of the modelled caller
    \* l2_norm_square
    x,             \* the tensor argument (1-D, surds)
    scale,         \* the scale argument (None or a number)
    ret_plain,     \* l2_norm_square(x)
    ret_scaled,    \* l2_norm_square(x, scale)
    \* compute_bc_loss
    inputs_attr,   \* inputs_attr["bc"].keys(), in key order
    labels_attr,   \* labels_attr["bc"]: key -> list of [rhs, weight]
    outputs_var,   \* list of output tensors, rows of (u, v, w, p)
    pde_disc,      \* pde_disc.bc: key -> list of condition names
    bc_loss,       \* what compute_bc_loss returned
    contrib,       \* the value each "bc_loss +=" added, by boundary and sub-condition
    doubled,       \* the sub-condition whose weight the caller doubled, if any
    \* compute_eq_loss
    inputs,        \* the points fed as inputs, rows of (x, y, z)
    outputs,       \* the network's outputs u, v, w, p as functions of an input row
    labels_var,    \* u_n, v_n, w_n: one value per point each
    eq_loss,       \* what compute_eq_loss returned
    \* data-parallel partition; every rank is a process of its own
    nranks,        \* paddle.distributed.get_world_size()
    time_step,     \* the time_step the labels are partitioned with
    npoints,       \* global rows of labels 0-2 and of the first input
    data_size,     \* global rows of the other labels and of the second input
    rank_pc,       \* rank -> the next call the rank makes
    part_inputs,   \* rank -> its list of input arrays (rows are row ids)
    part_labels,   \* rank -> its list of label arrays
    inputs_shape,  \* rank -> shape[0] of each variable create_inputs_var declared
    labels_shape   \* rank -> shape[0] of each variable create_labels_var declared

normVars == <<x, scale, ret_plain, ret_scaled>>
bcVars == <<inputs_attr, labels_attr, outputs_var, pde_disc, bc_loss, contrib, doubled>>
eqVars == <<inputs, outputs, labels_var, eq_loss>>
partVars == <<nranks, time_step, npoints, data_size, rank_pc, part_inputs, part_labels,
              inputs_shape, labels_shape>>
vars == <<pc, normVars, bcVars, eqVars, partVars>>

\* ------------------------------------------------------------------ bounds
MaxLen == 3        \* longest 1-D tensor given to l2_norm_square
MaxVal == 2        \* tensor entries range over -MaxVal..MaxVal
MaxScale == 2      \* scales range over -MaxScale..MaxScale
BcPoints == 2      \* rows (points) of each boundary output tensor
EqPoints == 2      \* most rows (points) of the equation inputs
MaxRanks == 3      \* largest world size
MaxSize == 4       \* largest global number of rows of an array
NumLabels == 11    \* entries of the label list

\* --------------------------------------------------------------- constants
BcScale == 10000   \* the scale compute_bc_loss passes to l2_norm_square

None == [none |-> TRUE]
NoValue == [novalue |-> TRUE]   \* a result variable before the call that sets it

\* ------------------------------------------------------- exact arithmetic
Abs(i) == IF i < 0 THEN -i ELSE i

RECURSIVE GCD(_, _)
GCD(a, b) == IF b = 0 THEN a ELSE GCD(b, a % b)

Undef == [n |-> 0, d |-> 0]

Rat(n, d) ==
    IF d = 0 THEN Undef
    ELSE LET g == GCD(Abs(n), Abs(d))
             s == IF d < 0 THEN -1 ELSE 1
         IN  [n |-> (s * n) \div g, d |-> (s * d) \div g]

RInt(i) == [n |-> i, d |-> 1]
Zero == RInt(0)
One == RInt(1)

IsUndef(a) == a.d = 0

\* sums and products cancel common factors before they multiply
RAdd(a, b) == IF IsUndef(a) \/ IsUndef(b) THEN Undef
              ELSE LET g == GCD(a.d, b.d)
                   IN  Rat(a.n * (b.d \div g) + b.n * (a.d \div g), (a.d \div g) * b.d)
RNeg(a) == IF IsUndef(a) THEN Undef ELSE [n |-> -a.n, d |-> a.d]
RSub(a, b) == RAdd(a, RNeg(b))
RMul(a, b) == IF IsUndef(a) \/ IsUndef(b) THEN Undef
              ELSE LET g1 == GCD(Abs(a.n), b.d)
                       g2 == GCD(Abs(b.n), a.d)
                   IN  Rat((a.n \div g1) * (b.n \div g2), (a.d \div g2) * (b.d \div g1))
RDiv(a, b) == IF IsUndef(a) \/ IsUndef(b) \/ b.n = 0 THEN Undef
              ELSE RMul(a, Rat(b.d, b.n))
RNonNeg(a) == ~IsUndef(a) /\ a.n >= 0

\* q * sqrt(r)
Surd(q, r) == [q |-> q, r |-> r]
Plain(a) == Surd(a, One)
\* np.sqrt of a number: nan below zero
Sqrt(a) == IF RNonNeg(a) THEN Surd(One, a) ELSE Surd(Undef, Zero)
\* a surd times / over a plain number, and its square
SMul(s, a) == Surd(RMul(s.q, a), s.r)
SDiv(s, a) == Surd(RDiv(s.q, a), s.r)
SSquare(s) == RMul(RMul(s.q, s.q), s.r)
\* a plain number times a surd
RTimesS(a, s) == Surd(RMul(a, s.q), s.r)

RECURSIVE SumSquares(_)
SumSquares(t) ==
    IF t = <<>> THEN Zero
    ELSE RAdd(SSquare(Head(t)), SumSquares(Tail(t)))

\* paddle.norm(t, p=2) of a 1-D tensor
Norm2(t) == Sqrt(SumSquares(t))

\* x * scale, elementwise
Scaled(t, k) == [i \in 1..Len(t) |-> SMul(t[i], k)]

\* --------------------------------------------------------- l2_norm_square
\* a faulty variant of L2NormSquare: the norm of the scaled tensor is not divided by scale
L2NormSquareNoDivide(t, k) ==
    LET l2_norm == IF k = None THEN Norm2(t) ELSE Norm2(Scaled(t, k))
    IN  SSquare(l2_norm)

\* a faulty variant of L2NormSquare: l2_norm times the undivided norm
L2NormSquareDivideOnce(t, k) ==
    LET l2_norm == IF k = None THEN Norm2(t) ELSE Norm2(Scaled(t, k))
    IN  IF k = None THEN SSquare(l2_norm) ELSE RDiv(SSquare(l2_norm), k)

L2NormSquare(t, k) ==
    LET l2_norm == IF k = None THEN Norm2(t)
                   ELSE SDiv(Norm2(Scaled(t, k)), k)
    IN  SSquare(l2_norm)

\* ------------------------------------------------- the l2_norm_square runs
Scales == {RInt(k) : k \in -MaxScale..MaxScale}

RECURSIVE SeqsUpTo(_, _)
SeqsUpTo(S, n) ==
    IF n = 0 THEN {<<>>}
    ELSE LET shorter == SeqsUpTo(S, n - 1)
         IN  shorter \cup {Append(s, e) : s \in {t \in shorter : Len(t) = n - 1}, e \in S}

NormIdle ==
    /\ x = <<>>
    /\ scale = None
    /\ ret_plain = NoValue
    /\ ret_scaled = NoValue

BcIdle ==
    /\ inputs_attr = <<>>
    /\ labels_attr = <<>>
    /\ outputs_var = <<>>
    /\ pde_disc = <<>>
    /\ bc_loss = NoValue
    /\ contrib = <<>>
    /\ doubled = None

EqIdle ==
    /\ inputs = <<>>
    /\ outputs = <<>>
    /\ labels_var = <<>>
    /\ eq_loss = NoValue

PartIdle ==
    /\ nranks = 1
    /\ time_step = 0
    /\ npoints = 0
    /\ data_size = 0
    /\ rank_pc = <<>>
    /\ part_inputs = <<>>
    /\ part_labels = <<>>
    /\ inputs_shape = <<>>
    /\ labels_shape = <<>>

NormInit ==
    /\ pc = "norm"
    /\ BcIdle
    /\ EqIdle
    /\ PartIdle
    /\ x \in SeqsUpTo({Plain(RInt(v)) : v \in -MaxVal..MaxVal}, MaxLen)
    /\ scale \in Scales
    /\ ret_plain = NoValue
    /\ ret_scaled = NoValue

CallPlain ==
    /\ pc = "norm"
    /\ ret_plain = NoValue
    /\ ret_plain' = L2NormSquare(x, None)
    /\ UNCHANGED <<pc, x, scale, ret_scaled, bcVars, eqVars, partVars>>

CallScaled ==
    /\ pc = "norm"
    /\ ret_scaled = NoValue
    /\ ret_scaled' = L2NormSquare(x, scale)
    /\ UNCHANGED <<pc, x, scale, ret_plain, bcVars, eqVars, partVars>>

NormNext == CallPlain \/ CallScaled

NormSpec == NormInit /\ [][NormNext]_vars

\* -------------------------------------------------------- compute_bc_loss
name2index(name) ==
    CASE name = "u" -> 0
      [] name = "v" -> 1
      [] name = "w" -> 2
      [] name = "p" -> 3

\* a faulty variant of OutEl: outputs_var[i] for the i-th key
OutElNoOffset(outs, i) == outs[i + 1]

\* outputs_var[i + 1], for the i-th key counted from 0
OutEl(outs, i) == outs[(i + 1) + 1]

\* out_el[:, index]
Column(out_el, index) == [r \in 1..Len(out_el) |-> RInt(out_el[r][index + 1])]

\* a faulty variant of WeightedDiff: the weight is left out
WeightedDiffUnweighted(col, rhs_b, wgt_b) ==
    [r \in 1..Len(col) |-> Plain(RSub(col[r], RInt(rhs_b)))]

\* (out_el[:, index] - rhs_b) * np.sqrt(wgt_b)
WeightedDiff(col, rhs_b, wgt_b) ==
    [r \in 1..Len(col) |-> RTimesS(RSub(col[r], RInt(rhs_b)), Sqrt(RInt(wgt_b)))]

\* the value one pass of the inner loop adds to bc_loss (i, j counted from 0)
BcTerm(attr, lab, outs, disc, i, j) ==
    LET name_b == attr[i + 1]
        out_el == OutEl(outs, i)
        rhs_b == lab[name_b][j + 1].rhs
        wgt_b == lab[name_b][j + 1].weight
        index == name2index(disc[name_b][j + 1])
    IN  L2NormSquare(WeightedDiff(Column(out_el, index), rhs_b, wgt_b), RInt(BcScale))

RECURSIVE BcLoop(_, _, _, _, _, _, _)
BcLoop(attr, lab, outs, disc, i, j, acc) ==
    IF i >= Len(attr) THEN acc
    ELSE IF j >= Len(disc[attr[i + 1]])
         THEN BcLoop(attr, lab, outs, disc, i + 1, 0, acc)
         ELSE BcLoop(attr, lab, outs, disc, i, j + 1,
                     RAdd(acc, BcTerm(attr, lab, outs, disc, i, j)))

ComputeBcLoss(attr, lab, outs, disc) == BcLoop(attr, lab, outs, disc, 0, 0, Zero)

\* ------------------------------------------------ the compute_bc_loss runs
BcKeys == <<"b1", "b2">>
\* the number of sub-conditions of each boundary, in key order
BcShapes == {<<>>, <<1>>, <<2>>, <<0, 1>>, <<1, 1>>}
CondNames == {"u", "v", "w", "p"}
BcRows == {<<0, 0, 1, 1>>, <<0, 1, 0, 1>>}
BcTensors == [1..BcPoints -> BcRows]
InteriorTensors == {<<<<0, 0, 0, 0>>>>, <<<<1, 1, 1, 1>>>>}
RhsValues == {0, 1}
\* loss weights, of which np.sqrt is taken: none is below zero
Weights == {0, 2}
Labels == [rhs : RhsValues, weight : Weights]

KeyIndex(k) == CHOOSE i \in 1..Len(BcKeys) : BcKeys[i] = k
KeySet(n) == {BcKeys[i] : i \in 1..n}

BcInit ==
    /\ pc = "bc"
    /\ NormIdle
    /\ EqIdle
    /\ PartIdle
    /\ \E shape \in BcShapes :
         LET n == Len(shape) IN
         /\ inputs_attr = SubSeq(BcKeys, 1, n)
         /\ pde_disc \in {d \in [KeySet(n) -> UNION {[1..m -> CondNames] : m \in 0..2}] :
                            \A k \in KeySet(n) : Len(d[k]) = shape[KeyIndex(k)]}
         /\ labels_attr \in {l \in [KeySet(n) -> UNION {[1..m -> Labels] : m \in 0..2}] :
                               \A k \in KeySet(n) : Len(l[k]) = shape[KeyIndex(k)]}
         /\ outputs_var \in {<<t0>> \o ts : t0 \in InteriorTensors, ts \in [1..n -> BcTensors]}
    /\ bc_loss = NoValue
    /\ contrib = <<>>
    /\ doubled = None

CallComputeBcLoss ==
    /\ pc = "bc"
    /\ bc_loss' = ComputeBcLoss(inputs_attr, labels_attr, outputs_var, pde_disc)
    /\ contrib' = [i \in 1..Len(inputs_attr) |->
                     [j \in 1..Len(pde_disc[inputs_attr[i]]) |->
                        BcTerm(inputs_attr, labels_attr, outputs_var, pde_disc, i - 1, j - 1)]]
    /\ pc' = "bc_done"
    /\ UNCHANGED <<inputs_attr, labels_attr, outputs_var, pde_disc, doubled, normVars, eqVars, partVars>>

\* the caller doubles the weight of one sub-condition and computes the loss again
DoubleWeight ==
    /\ pc = "bc_done"
    /\ doubled = None
    /\ \E i \in 1..Len(inputs_attr) : \E j \in 1..Len(pde_disc[inputs_attr[i]]) :
         LET k == inputs_attr[i] IN
         /\ labels_attr' = [labels_attr EXCEPT ![k][j].weight = 2 * @]
         /\ doubled' = [i |-> i, j |-> j, old |-> contrib[i][j], loss |-> bc_loss]
    /\ pc' = "bc"
    /\ UNCHANGED <<inputs_attr, outputs_var, pde_disc, bc_loss, contrib, normVars, eqVars, partVars>>

BcNext == CallComputeBcLoss \/ DoubleWeight

BcSpec == BcInit /\ [][BcNext]_vars

\* -------------------------------------------------------- compute_eq_loss
\* A tensor of the static graph is a function of the input row: a polynomial
\* in x, y, z, held as a list of terms c * x^e[1] * y^e[2] * z^e[3].
Term(c, ex, ey, ez) == [c |-> c, e |-> <<ex, ey, ez>>]

RECURSIVE Pow(_, _)
Pow(b, k) == IF k = 0 THEN 1 ELSE b * Pow(b, k - 1)

RECURSIVE Eval(_, _)
Eval(poly, pt) ==
    IF poly = <<>> THEN Zero
    ELSE LET t == Head(poly)
         IN  RAdd(RMul(t.c, RInt(Pow(pt[1], t.e[1]) * Pow(pt[2], t.e[2]) * Pow(pt[3], t.e[3]))),
                  Eval(Tail(poly), pt))

\* the partial derivative of a tensor along input column k (counted from 0)
Partial(poly, k) ==
    [i \in 1..Len(poly) |->
        IF poly[i].e[k + 1] = 0 THEN Term(Zero, 0, 0, 0)
        ELSE [c |-> RMul(poly[i].c, RInt(poly[i].e[k + 1])),
              e |-> [poly[i].e EXCEPT ![k + 1] = @ - 1]]]

\* paddle.static.gradients([t], [inputs]): the columns d/dx, d/dy, d/dz
Gradients(t) == <<Partial(t, 0), Partial(t, 1), Partial(t, 2)>>

nu == Rat(1, 100)
rho == One
dt == One

\* the first and second derivative tensors compute_eq_loss builds
EqGraph(out) ==
    LET jac0 == Gradients(out.u)
        jac1 == Gradients(out.v)
        jac2 == Gradients(out.w)
        jac3 == Gradients(out.p)
    IN  [u |-> out.u, v |-> out.v, w |-> out.w, p |-> out.p,
         jac0 |-> jac0, jac1 |-> jac1, jac2 |-> jac2, jac3 |-> jac3,
         hes0 |-> Gradients(jac0[1]), hes1 |-> Gradients(jac0[2]),
         hes2 |-> Gradients(jac0[3]), hes3 |-> Gradients(jac1[1]),
         hes4 |-> Gradients(jac1[2]), hes5 |-> Gradients(jac1[3]),
         hes6 |-> Gradients(jac2[1]), hes7 |-> Gradients(jac2[2]),
         hes8 |-> Gradients(jac2[3])]

\* t[:, k] at one point, for a derivative tensor t
At(t, k, pt) == Eval(t[k + 1], pt)

Continuty(g, pt) ==
    RAdd(RAdd(At(g.jac0, 0, pt), At(g.jac1, 1, pt)), At(g.jac2, 2, pt))

\* a faulty variant of MomentumX: the pressure gradient is subtracted
MomentumXMinusPressure(g, u_n, pt) ==
    LET u == Eval(g.u, pt)
        v == Eval(g.v, pt)
        w == Eval(g.w, pt)
        time == RSub(RDiv(u, dt), RDiv(u_n, dt))
        conv == RAdd(RAdd(RMul(u, At(g.jac0, 0, pt)), RMul(v, At(g.jac0, 1, pt))),
                     RMul(w, At(g.jac0, 2, pt)))
        visc == RAdd(RAdd(RMul(RDiv(nu, rho), At(g.hes0, 0, pt)),
                          RMul(RDiv(nu, rho), At(g.hes1, 1, pt))),
                     RMul(RDiv(nu, rho), At(g.hes2, 2, pt)))
        pres == RMul(RDiv(One, rho), At(g.jac3, 0, pt))
    IN  RSub(RSub(RAdd(time, conv), visc), pres)


MomentumX(g, u_n, pt) ==
    LET u == Eval(g.u, pt)
        v == Eval(g.v, pt)
        w == Eval(g.w, pt)
        time == RSub(RDiv(u, dt), RDiv(u_n, dt))
        conv == RAdd(RAdd(RMul(u, At(g.jac0, 0, pt)), RMul(v, At(g.jac0, 1, pt))),
                     RMul(w, At(g.jac0, 2, pt)))
        visc == RAdd(RAdd(RMul(RDiv(nu, rho), At(g.hes0, 0, pt)),
                          RMul(RDiv(nu, rho), At(g.hes1, 1, pt))),
                     RMul(RDiv(nu, rho), At(g.hes2, 2, pt)))
        pres == RMul(RDiv(One, rho), At(g.jac3, 0, pt))
    IN  RAdd(RSub(RAdd(time, conv), visc), pres)

\* a faulty variant of MomentumY: hes4[:, 0], the mixed derivative, in place of hes4[:, 1]
MomentumYMixedHessian(g, v_n, pt) ==
    LET u == Eval(g.u, pt)
        v == Eval(g.v, pt)
        w == Eval(g.w, pt)
        time == RSub(RDiv(v, dt), RDiv(v_n, dt))
        conv == RAdd(RAdd(RMul(u, At(g.jac1, 0, pt)), RMul(v, At(g.jac1, 1, pt))),
                     RMul(w, At(g.jac1, 2, pt)))
        visc == RAdd(RAdd(RMul(RDiv(nu, rho), At(g.hes3, 0, pt)),
                          RMul(RDiv(nu, rho), At(g.hes4, 0, pt))),
                     RMul(RDiv(nu, rho), At(g.hes5, 2, pt)))
        pres == RMul(RDiv(One, rho), At(g.jac3, 1, pt))
    IN  RAdd(RSub(RAdd(time, conv), visc), pres)


MomentumY(g, v_n, pt) ==
    LET u == Eval(g.u, pt)
        v == Eval(g.v, pt)
        w == Eval(g.w, pt)
        time == RSub(RDiv(v, dt), RDiv(v_n, dt))
        conv == RAdd(RAdd(RMul(u, At(g.jac1, 0, pt)), RMul(v, At(g.jac1, 1, pt))),
                     RMul(w, At(g.jac1, 2, pt)))
        visc == RAdd(RAdd(RMul(RDiv(nu, rho), At(g.hes3, 0, pt)),
                          RMul(RDiv(nu, rho), At(g.hes4, 1, pt))),
                     RMul(RDiv(nu, rho), At(g.hes5, 2, pt)))
        pres == RMul(RDiv(One, rho), At(g.jac3, 1, pt))
    IN  RAdd(RSub(RAdd(time, conv), visc), pres)

MomentumZ(g, w_n, pt) ==
    LET u == Eval(g.u, pt)
        v == Eval(g.v, pt)
        w == Eval(g.w, pt)
        time == RSub(RDiv(w, dt), RDiv(w_n, dt))
        conv == RAdd(RAdd(RMul(u, At(g.jac2, 0, pt)), RMul(v, At(g.jac2, 1, pt))),
                     RMul(w, At(g.jac2, 2, pt)))
        visc == RAdd(RAdd(RMul(RDiv(nu, rho), At(g.hes6, 0, pt)),
                          RMul(RDiv(nu, rho), At(g.hes7, 1, pt))),
                     RMul(RDiv(nu, rho), At(g.hes8, 2, pt)))
        pres == RMul(RDiv(One, rho), At(g.jac3, 2, pt))
    IN  RAdd(RSub(RAdd(time, conv), visc), pres)

\* wgt = np.sqrt(0.01)
EqWgt == Sqrt(Rat(1, 100))
EqRhs == Zero

\* (residual - rhs) * wgt, one entry per point
EqWeighted(res) == [n \in 1..Len(res) |-> RTimesS(RSub(res[n], EqRhs), EqWgt)]

ComputeEqLoss(ins, out, lab) ==
    LET g == EqGraph(out)
        N == 1..Len(ins)
        continuty == [n \in N |-> Continuty(g, ins[n])]
        momentum_x == [n \in N |-> MomentumX(g, RInt(lab[1][n]), ins[n])]
        momentum_y == [n \in N |-> MomentumY(g, RInt(lab[2][n]), ins[n])]
        momentum_z == [n \in N |-> MomentumZ(g, RInt(lab[3][n]), ins[n])]
    IN  RAdd(RAdd(RAdd(L2NormSquare(EqWeighted(continuty), None),
                       L2NormSquare(EqWeighted(momentum_x), None)),
                  L2NormSquare(EqWeighted(momentum_y), None)),
             L2NormSquare(EqWeighted(momentum_z), None))

\* ------------------------------------------------ the compute_eq_loss runs
PolyZero == <<>>
PolyX == <<Term(One, 1, 0, 0)>>
PolyY == <<Term(One, 0, 1, 0)>>
PolyYY == <<Term(One, 0, 2, 0)>>
\* x^2 + 2 y^2 + 3 z^2 + x y: every second derivative but d2/dxdz, d2/dydz differs
PolyQuad == <<Term(One, 2, 0, 0), Term(RInt(2), 0, 2, 0), Term(RInt(3), 0, 0, 2),
              Term(One, 1, 1, 0)>>
\* x / 50, the pressure that balances the viscous term of u = y^2
PolyX50 == <<Term(Rat(1, 50), 1, 0, 0)>>

VelocityFields == {PolyZero, PolyY, PolyYY, PolyQuad}
PressureFields == {PolyZero, PolyX50, PolyQuad}
EqPointSet == {<<0, 0, 0>>, <<1, 1, 1>>, <<1, 0, 1>>}
LabelModes == {"steady", "zero", "one"}

\* the previous-step labels: the current field, all 0, or all 1
EqLabels(mode, out, ins) ==
    LET val(poly, n) == IF mode = "steady" THEN Eval(poly, ins[n]).n
                        ELSE IF mode = "zero" THEN 0 ELSE 1
    IN  <<[n \in 1..Len(ins) |-> val(out.u, n)],
          [n \in 1..Len(ins) |-> val(out.v, n)],
          [n \in 1..Len(ins) |-> val(out.w, n)]>>

EqInit ==
    /\ pc = "eq"
    /\ NormIdle
    /\ BcIdle
    /\ PartIdle
    /\ inputs \in SeqsUpTo(EqPointSet, EqPoints) \ {<<>>}
    /\ outputs \in [u : VelocityFields, v : VelocityFields, w : VelocityFields,
                    p : PressureFields]
    /\ \E mode \in LabelModes : labels_var = EqLabels(mode, outputs, inputs)
    /\ eq_loss = NoValue

CallComputeEqLoss ==
    /\ pc = "eq"
    /\ eq_loss' = ComputeEqLoss(inputs, outputs, labels_var)
    /\ pc' = "eq_done"
    /\ UNCHANGED <<inputs, outputs, labels_var, normVars, bcVars, partVars>>

EqNext == CallComputeEqLoss

EqSpec == EqInit /\ [][EqNext]_vars

\* ------------------------------------------------- data-parallel partition
\* a[start:end] for 0 <= start, 0 <= end
PySlice(a, start, end) ==
    SubSeq(a, start + 1, IF end < Len(a) THEN end ELSE Len(a))

\* a faulty variant of SliceBounds: the last rank does not take the remainder
SliceBoundsNoRemainder(gbsz, rank, nr) ==
    LET lbsz == gbsz \div nr
    IN  [start |-> rank * lbsz, end |-> (rank + 1) * lbsz]

\* the bounds [start, end) data_parallel_partition computes for one array
SliceBounds(gbsz, rank, nr) ==
    LET lbsz == gbsz \div nr
        start == rank * lbsz
        end == (rank + 1) * lbsz
    IN  [start |-> start,
         end |-> IF rank = nr - 1 THEN end + (gbsz % nr) ELSE end]

\* a faulty variant of AlreadyPartitioned: the last three labels are not skipped
OnlyFirstThree == {0, 1, 2}


AlreadyPartitioned == {0, 1, 2, 7, 8, 9}

DataParallelPartition(data, step, rank, nr) ==
    IF nr <= 1 THEN data
    ELSE [i \in 1..Len(data) |->
            IF step > 0 /\ (i - 1) \in AlreadyPartitioned THEN data[i]
            ELSE LET b == SliceBounds(Len(data[i]), rank, nr)
                 IN  PySlice(data[i], b.start, b.end)]

\* shape[0] of the variable create_inputs_var declares for an input of gbsz rows
InputBatch(gbsz, rank, nr) ==
    IF nr > 1
    THEN LET lbsz == gbsz \div nr
         IN  IF rank = nr - 1 THEN lbsz + (gbsz % nr) ELSE lbsz
    ELSE gbsz

CreateInputsVar(ins, rank, nr) ==
    [i \in 1..Len(ins) |-> InputBatch(Len(ins[i]), rank, nr)]

\* a faulty variant of LabelBatch: every label is declared with data_size rows
LabelBatchDataSize(i, np, ds, rank, nr) ==
    IF nr > 1
    THEN LET lbsz == ds \div nr
         IN  IF rank = nr - 1 THEN lbsz + (ds % nr) ELSE lbsz
    ELSE ds

\* shape[0] of the variable create_labels_var declares for label i (from 0)
LabelBatch(i, np, ds, rank, nr) ==
    LET shape0 == IF i \in {0, 1, 2} THEN np ELSE ds
    IN  IF nr > 1
        THEN LET gbsz == shape0
                 lbsz == gbsz \div nr
             IN  IF rank = nr - 1 THEN lbsz + (gbsz % nr) ELSE lbsz
        ELSE shape0

CreateLabelsVar(labs, np, ds, rank, nr) ==
    [i \in 1..Len(labs) |-> LabelBatch(i - 1, np, ds, rank, nr)]

\* ------------------------------------------------------ the partition runs
Ranks == 0..(nranks - 1)
GlobalArray(g) == [k \in 1..g |-> k]
GlobalInputs == <<GlobalArray(npoints), GlobalArray(data_size)>>
GlobalLabels ==
    [i \in 1..NumLabels |-> GlobalArray(IF i - 1 \in {0, 1, 2} THEN npoints ELSE data_size)]
\* the labels a rank holds before the call: after the first time step the
\* entries that come out of the last step are the rank's own part already
LabelsBefore(rank) ==
    IF time_step > 0
    THEN [i \in 1..NumLabels |->
            IF (i - 1) \in AlreadyPartitioned
            THEN DataParallelPartition(GlobalLabels, 0, rank, nranks)[i]
            ELSE GlobalLabels[i]]
    ELSE GlobalLabels

TimeSteps == {0, 1}

PartInit ==
    /\ pc = "part"
    /\ NormIdle
    /\ BcIdle
    /\ EqIdle
    /\ nranks \in 1..MaxRanks
    /\ time_step \in TimeSteps
    /\ npoints \in 0..MaxSize
    /\ data_size \in 0..MaxSize
    /\ rank_pc = [r \in Ranks |-> "create_inputs_var"]
    /\ part_inputs = [r \in Ranks |-> GlobalInputs]
    /\ part_labels = [r \in Ranks |-> LabelsBefore(r)]
    /\ inputs_shape = [r \in Ranks |-> <<>>]
    /\ labels_shape = [r \in Ranks |-> <<>>]

CallCreateInputsVar(r) ==
    /\ pc = "part"
    /\ rank_pc[r] = "create_inputs_var"
    /\ inputs_shape' = [inputs_shape EXCEPT ![r] = CreateInputsVar(part_inputs[r], r, nranks)]
    /\ rank_pc' = [rank_pc EXCEPT ![r] = "create_labels_var"]
    /\ UNCHANGED <<pc, nranks, time_step, npoints, data_size, part_inputs, part_labels,
                   labels_shape, normVars, bcVars, eqVars>>

CallCreateLabelsVar(r) ==
    /\ pc = "part"
    /\ rank_pc[r] = "create_labels_var"
    /\ labels_shape' = [labels_shape EXCEPT
                          ![r] = CreateLabelsVar(part_labels[r], npoints, data_size, r, nranks)]
    /\ rank_pc' = [rank_pc EXCEPT ![r] = "partition_inputs"]
    /\ UNCHANGED <<pc, nranks, time_step, npoints, data_size, part_inputs, part_labels,
                   inputs_shape, normVars, bcVars, eqVars>>

\* data_parallel_partition(inputs): time_step takes its default, 0
PartitionInputs(r) ==
    /\ pc = "part"
    /\ rank_pc[r] = "partition_inputs"
    /\ part_inputs' = [part_inputs EXCEPT ![r] = DataParallelPartition(@, 0, r, nranks)]
    /\ rank_pc' = [rank_pc EXCEPT ![r] = "partition_labels"]
    /\ UNCHANGED <<pc, nranks, time_step, npoints, data_size, part_labels,
                   inputs_shape, labels_shape, normVars, bcVars, eqVars>>

\* data_parallel_partition(labels, time_step)
PartitionLabels(r) ==
    /\ pc = "part"
    /\ rank_pc[r] = "partition_labels"
    /\ part_labels' = [part_labels EXCEPT ![r] = DataParallelPartition(@, time_step, r, nranks)]
    /\ rank_pc' = [rank_pc EXCEPT ![r] = "done"]
    /\ UNCHANGED <<pc, nranks, time_step, npoints, data_size, part_inputs,
                   inputs_shape, labels_shape, normVars, bcVars, eqVars>>

PartNext ==
    \/ \E r \in Ranks : CallCreateInputsVar(r)
    \/ \E r \in Ranks : CallCreateLabelsVar(r)
    \/ \E r \in Ranks : PartitionInputs(r)
    \/ \E r \in Ranks : PartitionLabels(r)

PartSpec == PartInit /\ [][PartNext]_vars

\* ------------------------------------------------------ the loss functions
LossInit == NormInit \/ BcInit \/ EqInit
LossNext == NormNext \/ BcNext \/ EqNext
LossSpec == LossInit /\ [][LossNext]_vars

\* ------------------------------------------------------------- everything
Init == NormInit \/ BcInit \/ EqInit \/ PartInit
Next == NormNext \/ BcNext \/ EqNext \/ PartNext
Spec == Init /\ [][Next]_vars

\* ================================================================ claims
RECURSIVE SumInts(_, _)
SumInts(f, n) == IF n = 0 THEN 0 ELSE f[n] + SumInts(f, n - 1)

\* ---------------------------------------------------------------- C3
\* the sum of the squares of the entries of x (whole numbers in these runs)
SquaresOfX == SumInts([i \in 1..Len(x) |-> x[i].q.n * x[i].q.n], Len(x))

BothNormsReturned == ret_plain # NoValue /\ ret_scaled # NoValue

\* C3 as stated: l2_norm_square(x) is the sum of the squares of the entries of
\* x, and l2_norm_square(x, scale) equals l2_norm_square(x) for every scale.
C3_EveryScale ==
    BothNormsReturned => /\ ret_plain = RInt(SquaresOfX)
                         /\ ret_scaled = ret_plain

\* C3 amended: l2_norm_square(x) is the sum of the squares of the entries of
\* x, and l2_norm_square(x, scale) equals l2_norm_square(x) for every scale
\* other than zero.
C3_NonZeroScale ==
    BothNormsReturned => /\ ret_plain = RInt(SquaresOfX)
                         /\ scale # Zero => ret_scaled = ret_plain

C3_Witness ==
    /\ BothNormsReturned
    /\ scale = RInt(-2)
    /\ Len(x) = 2
    /\ ret_scaled = RInt(5)

\* ---------------------------------------------------------------- C1
\* the claim's fixed mapping of condition names to output columns
ClaimIndex == [name \in CondNames |->
                 IF name = "u" THEN 0 ELSE IF name = "v" THEN 1
                 ELSE IF name = "w" THEN 2 ELSE 3]

\* weight_j times the sum of squares of (outputs_var[i+1][:, index] - rhs_j),
\* for the i-th boundary and its j-th sub-condition (both counted from 1 here,
\* so that the i-th boundary reads the (i + 1)-th entry of outputs_var)
ClaimedTerm(i, j) ==
    LET name_b == inputs_attr[i]
        out == outputs_var[i + 1]
        col == ClaimIndex[pde_disc[name_b][j]] + 1
        rhs == labels_attr[name_b][j].rhs
        sq == [r \in 1..Len(out) |-> (out[r][col] - rhs) * (out[r][col] - rhs)]
    IN  labels_attr[name_b][j].weight * SumInts(sq, Len(out))

ClaimedBcLoss ==
    LET perBoundary ==
            [i \in 1..Len(inputs_attr) |->
                SumInts([j \in 1..Len(pde_disc[inputs_attr[i]]) |-> ClaimedTerm(i, j)],
                        Len(pde_disc[inputs_attr[i]]))]
    IN  SumInts(perBoundary, Len(inputs_attr))

\* C1: compute_bc_loss returns the sum, over every boundary (the i-th key) and
\* every sub-condition j, of weight_j times the sum of squares of
\* (outputs_var[i+1][:, index] - rhs_j), index by u->0, v->1, w->2, p->3;
\* outputs_var[0] never contributes and the result is 0 with no boundaries.
C1_BcLossIsWeightedSum ==
    pc = "bc_done" =>
        /\ bc_loss = RInt(ClaimedBcLoss)
        /\ Len(inputs_attr) = 0 => bc_loss = Zero

C1_Witness ==
    /\ pc = "bc_done"
    /\ Len(inputs_attr) = 2
    /\ outputs_var[1] = <<<<1, 1, 1, 1>>>>
    /\ pde_disc["b1"] = <<"v">> /\ pde_disc["b2"] = <<"p">>
    /\ contrib[1][1] = RInt(2) /\ contrib[2][1] = RInt(4)
    /\ bc_loss = RInt(6)

\* ---------------------------------------------------------------- C4
Recomputed == pc = "bc_done" /\ doubled # None

\* C4 as stated: doubling the weight of one sub-condition, all else fixed,
\* multiplies that sub-condition's contribution to bc_loss by 4.
C4_Quadruples ==
    Recomputed => contrib[doubled.i][doubled.j] = RMul(RInt(4), doubled.old)

\* C4 amended: doubling the weight of one sub-condition, all else fixed,
\* multiplies that sub-condition's contribution to bc_loss by 2, and the rest
\* of bc_loss is unchanged.
C4_Doubles ==
    Recomputed =>
        /\ contrib[doubled.i][doubled.j] = RMul(RInt(2), doubled.old)
        /\ RSub(bc_loss, contrib[doubled.i][doubled.j]) = RSub(doubled.loss, doubled.old)

C4_Witness ==
    /\ Recomputed
    /\ doubled.old = RInt(2)
    /\ contrib[doubled.i][doubled.j] = RInt(4)
    /\ labels_attr[inputs_attr[doubled.i]][doubled.j].weight = 4

\* ---------------------------------------------------------------- C2
RECURSIVE SumRats(_, _)
SumRats(f, n) == IF n = 0 THEN Zero ELSE RAdd(f[n], SumRats(f, n - 1))

ClaimNu == Rat(1, 100)
ClaimRho == One
ClaimDt == One
Velocity == <<outputs.u, outputs.v, outputs.w>>

\* the value of a tensor, and of its derivative along axis a (0, 1, 2 for
\* x, y, z), at point number n
ValueAt(c, n) == Eval(c, inputs[n])
DAt(c, a, n) == Eval(Partial(c, a), inputs[n])
\* the second derivative along a: the derivative of the first-derivative column
D2At(c, a, n) == Eval(Partial(Partial(c, a), a), inputs[n])

\* du/dx + dv/dy + dw/dz
ClaimedContinuity(n) ==
    RAdd(RAdd(DAt(outputs.u, 0, n), DAt(outputs.v, 1, n)), DAt(outputs.w, 2, n))

\* (c - c_n)/dt + u dc/dx + v dc/dy + w dc/dz - (nu/rho) lap(c) + (1/rho) dp/da,
\* for the a-th velocity component c (a = 0, 1, 2)
ClaimedMomentum(a, n) ==
    LET c == Velocity[a + 1]
        c_n == RInt(labels_var[a + 1][n])
        conv == SumRats([k \in 1..3 |-> RMul(ValueAt(Velocity[k], n), DAt(c, k - 1, n))], 3)
        lap == SumRats([k \in 1..3 |-> D2At(c, k - 1, n)], 3)
    IN  RAdd(RSub(RAdd(RDiv(RSub(ValueAt(c, n), c_n), ClaimDt), conv),
                  RMul(RDiv(ClaimNu, ClaimRho), lap)),
             RMul(RDiv(One, ClaimRho), DAt(outputs.p, a, n)))

Sq(a) == RMul(a, a)

ClaimedEqLoss ==
    LET perPoint == [n \in 1..Len(inputs) |->
                       RAdd(Sq(ClaimedContinuity(n)),
                            SumRats([k \in 1..3 |-> Sq(ClaimedMomentum(k - 1, n))], 3))]
    IN  RMul(Rat(1, 100), SumRats(perPoint, Len(inputs)))

\* C2: compute_eq_loss returns 0.01 times the sum of the squared norms of the
\* continuity residual and the three momentum residuals, each momentum being
\* (c - c_n)/dt + u dc/dx + v dc/dy + w dc/dz - (nu/rho) lap(c) + (1/rho) dp/da
\* with nu = 0.01, rho = 1, dt = 1 and lap(c) the sum of the derivatives of the
\* first-derivative columns of c along their own axis.
C2_EqLossIsResidualSum == pc = "eq_done" => eq_loss = ClaimedEqLoss

C2_Witness ==
    /\ pc = "eq_done"
    /\ Len(inputs) = 2
    /\ inputs[1] = <<1, 1, 1>>
    /\ outputs.u = PolyQuad /\ outputs.v = PolyQuad /\ outputs.w = PolyY
    /\ outputs.p = PolyQuad
    /\ ~IsUndef(eq_loss) /\ eq_loss.n > 0

\* ---------------------------------------------------------------- C5
\* every selected output channel equals its rhs at every point of every boundary
BcExact ==
    \A i \in 1..Len(inputs_attr) : \A j \in 1..Len(pde_disc[inputs_attr[i]]) :
        \A r \in 1..Len(outputs_var[i + 1]) :
            outputs_var[i + 1][r][ClaimIndex[pde_disc[inputs_attr[i]][j]] + 1]
                = labels_attr[inputs_attr[i]][j].rhs

\* the continuity and the three momentum residuals are zero at every point
EqExact ==
    \A n \in 1..Len(inputs) :
        /\ ClaimedContinuity(n) = Zero
        /\ \A a \in 0..2 : ClaimedMomentum(a, n) = Zero

\* C5: both losses are 0 on exact data: compute_bc_loss returns 0 when every
\* selected output channel equals its rhs on every boundary, and compute_eq_loss
\* returns 0 when the continuity and momentum residuals vanish at every point.
C5_ZeroOnExactData ==
    /\ (pc = "bc_done" /\ BcExact) => bc_loss = Zero
    /\ (pc = "eq_done" /\ EqExact) => eq_loss = Zero

\* the exact field u = y^2, p = x/50 at two points
C5_Witness ==
    /\ pc = "eq_done"
    /\ EqExact
    /\ outputs.u = PolyYY /\ outputs.p = PolyX50
    /\ inputs = <<<<1, 1, 1>>, <<1, 0, 1>>>>
    /\ eq_loss = Zero

\* two boundaries matched by their outputs, with weights above zero
C5_BcExactReached ==
    /\ pc = "bc_done"
    /\ BcExact
    /\ Len(inputs_attr) = 2
    /\ \A i \in 1..2 : labels_attr[inputs_attr[i]][1].weight = 2
    /\ labels_attr["b1"][1].rhs = 1
    /\ bc_loss = Zero

\* ---------------------------------------------------------------- C6
WeightsNonNegative ==
    \A i \in 1..Len(inputs_attr) : \A j \in 1..Len(labels_attr[inputs_attr[i]]) :
        labels_attr[inputs_attr[i]][j].weight >= 0

\* C6: what l2_norm_square returns (with no scale, or with a non-zero scale of
\* either sign), what compute_bc_loss returns for non-negative weights and what
\* compute_eq_loss returns are never below zero.
C6_LossesNonNegative ==
    /\ ret_plain # NoValue => RNonNeg(ret_plain)
    /\ (ret_scaled # NoValue /\ scale # Zero) => RNonNeg(ret_scaled)
    /\ (pc = "bc_done" /\ WeightsNonNegative) => RNonNeg(bc_loss)
    /\ pc = "eq_done" => RNonNeg(eq_loss)

C6_Witness ==
    /\ ret_scaled # NoValue
    /\ scale = RInt(-1)
    /\ Len(x) = MaxLen
    /\ RNonNeg(ret_scaled) /\ ret_scaled.n > 0

\* ---------------------------------------------------------------- C7
RankPartitionedInputs(r) == pc = "part" /\ rank_pc[r] \in {"partition_labels", "done"}
RankDone(r) == pc = "part" /\ rank_pc[r] = "done"
LastRank == nranks - 1

\* the rows the claim gives rank r out of gbsz: gbsz \div nranks of them, and
\* the remainder too on the last rank, from row r * (gbsz \div nranks) on
ClaimedCount(gbsz, r) ==
    IF r = LastRank THEN (gbsz \div nranks) + (gbsz % nranks) ELSE gbsz \div nranks
ClaimedPart(a, r) ==
    [k \in 1..ClaimedCount(Len(a), r) |-> a[r * (Len(a) \div nranks) + k]]

RECURSIVE ConcatRanks(_, _, _)
ConcatRanks(parts, i, r) ==
    IF r < 0 THEN <<>> ELSE ConcatRanks(parts, i, r - 1) \o parts[r][i]

\* label entries that the call slices at this time_step
Sliced(i) == ~(time_step > 0 /\ (i - 1) \in {0, 1, 2, 7, 8, 9})

\* C7: for nranks >= 2 and every global size, the ranges the ranks compute for
\* one array are contiguous in rank order, disjoint and cover [0, gbsz): every
\* rank but the last keeps gbsz \div nranks rows, the last keeps the remainder
\* too, and the parts put together in rank order are the array again.
C7_PartitionCovers ==
    nranks >= 2 =>
        /\ \A r \in Ranks : RankPartitionedInputs(r) =>
              \A i \in 1..Len(GlobalInputs) :
                  part_inputs[r][i] = ClaimedPart(GlobalInputs[i], r)
        /\ \A r \in Ranks : RankDone(r) =>
              \A i \in 1..NumLabels : Sliced(i) =>
                  part_labels[r][i] = ClaimedPart(GlobalLabels[i], r)
        /\ (\A r \in Ranks : RankDone(r)) =>
              /\ \A i \in 1..Len(GlobalInputs) :
                    ConcatRanks(part_inputs, i, LastRank) = GlobalInputs[i]
              /\ \A i \in 1..NumLabels : Sliced(i) =>
                    ConcatRanks(part_labels, i, LastRank) = GlobalLabels[i]

C7_Witness ==
    /\ nranks = 3
    /\ \A r \in Ranks : RankDone(r)
    /\ npoints = 4 /\ data_size = 2
    /\ part_inputs[0][1] = <<1>> /\ part_inputs[1][1] = <<2>> /\ part_inputs[2][1] = <<3, 4>>
    /\ part_inputs[0][2] = <<>> /\ part_inputs[2][2] = <<1, 2>>

\* ---------------------------------------------------------------- C8
\* C8: with nranks <= 1 the call returns the list unchanged; with nranks > 1
\* and time_step > 0 the entries 0, 1, 2, 7, 8, 9 are left as they were and
\* every other entry is sliced; with time_step = 0 every entry is sliced.
C8_PartitionedLeftAlone ==
    \A r \in Ranks : RankDone(r) =>
        /\ nranks <= 1 => /\ part_labels[r] = LabelsBefore(r)
                          /\ part_inputs[r] = GlobalInputs
        /\ nranks > 1 =>
              \A i \in 1..NumLabels :
                  /\ (time_step > 0 /\ (i - 1) \in {0, 1, 2, 7, 8, 9})
                        => part_labels[r][i] = LabelsBefore(r)[i]
                  /\ (time_step = 0 \/ (i - 1) \notin {0, 1, 2, 7, 8, 9})
                        => part_labels[r][i] = ClaimedPart(LabelsBefore(r)[i], r)

C8_Witness ==
    /\ nranks = 2 /\ time_step = 1 /\ npoints = 4 /\ data_size = 4
    /\ RankDone(0)
    /\ part_labels[0][8] = <<1, 2>> /\ LabelsBefore(0)[8] = <<1, 2>>
    /\ part_labels[0][11] = <<1, 2>> /\ LabelsBefore(0)[11] = <<1, 2, 3, 4>>

\* ---------------------------------------------------------------- C9
\* C9: on every rank and for every nranks >= 1, the leading dimension that
\* create_inputs_var and create_labels_var declare for a variable is the
\* number of rows data_parallel_partition keeps on that rank.
C9_DeclaredShapeMatches ==
    \A r \in Ranks :
        /\ RankPartitionedInputs(r) =>
              \A i \in 1..Len(GlobalInputs) : inputs_shape[r][i] = Len(part_inputs[r][i])
        /\ RankDone(r) =>
              \A i \in 1..NumLabels : labels_shape[r][i] = Len(part_labels[r][i])

C9_Witness ==
    /\ nranks = 3 /\ time_step = 0 /\ npoints = 4 /\ data_size = 2
    /\ RankDone(2)
    /\ labels_shape[2][1] = 2 /\ labels_shape[2][4] = 2
    /\ inputs_shape[2] = <<2, 2>>
    /\ Len(part_labels[2][1]) = 2

====
